---------------------------- MODULE Spec2Model ----------------------------
(***************************************************************************)
(* The launcher of lan-play-bridge (src/launcher/launcher.js): a Node.js   *)
(* process that supervises the lan-play subprocess, serves a local         *)
(* WebSocket control channel and shuts itself down on heartbeat loss or    *)
(* inactivity.                                                             *)
(*                                                                         *)
(* Node runs every callback to completion on one thread, so each handler   *)
(* of the source is one atomic action.  Time is the value of Date.now() in *)
(* milliseconds.  A timer never fires before it is due, pending timers     *)
(* fire in the order of their due times, and a timer may fire late (the    *)
(* event loop was busy, the machine was suspended).                        *)
(***************************************************************************)
EXTENDS Integers, Sequences, FiniteSets

\* ------------------------------------------------------------------ bounds
MaxClients == 2

MaxSpawns == 3

MaxAdvances == 2

StartTime == 1000000

\* ------------------------------------------------- configuration (CONFIG)
heartbeatTimeoutMs == 30 * 1000

inactivityTimeoutMs == 10 * 60 * 1000

checkIntervalMs == 5 * 1000

restartDelayMs == 3000

exitDelayMs == 1000

\* the greatest depth at which followRedirects sends a request
maxRedirectDepth == 5

\* ws.readyState of the ws library
OPEN == 1

CLOSING == 2

Sockets == 1..MaxClients

Procs == 1..MaxSpawns

\* the amounts by which the clock is seen to have moved between two events:
\* one inactivity timeout, so that a time stamp is at most as old as the
\* timeout after one move and older after two
Steps == {inactivityTimeoutMs}

\* what a request may be answered with: the status code and whether there
\* is a Location header
Responses == [statusCode : {200, 302, 304, 404}, location : BOOLEAN]

\* what a client may send: raw.toString() of a frame
Payloads == {"{\"type\":\"heartbeat\"}", "{\"type\":\"status\"}", "{\"type\":\"ping\"}", "not json"}

VARIABLES
    phase,                \* "await": main awaits ensureBinary; "running"; "exited"
    exitCode,             \* argument of process.exit, -1 while the process lives
    now,                  \* Date.now()
    advances,             \* how many times the clock has moved
    lanPlayProc,          \* 0 (null) or the id of the last spawned ChildProcess
    lanPlayRunning,
    lastHeartbeat,
    hasReceivedHeartbeat,
    lastActivity,
    shuttingDown,
    connectedClients,
    procState,            \* per ChildProcess: "none", "alive", "errored", "closed"
    procKilled,           \* per ChildProcess: its .killed flag
    killCalls,            \* per ChildProcess: calls of .kill()
    readyState,           \* per socket: 0 while no socket has the number, else ws.readyState
    msgHandlers,          \* sockets with a 'message' listener
    sent,                 \* per socket: what the last callback passed to ws.send, in order
    shutdownSent,         \* per socket: shutdown messages passed to ws.send so far
    closeCalls,           \* per socket: calls of ws.close()
    monitorDue,           \* 0, or when the setInterval of the monitor is next due
    restartTimers,        \* due times of the pending setTimeout(startLanPlay, 3000)
    exitTimers,           \* due times of the setTimeout(process.exit, 1000) made
    cause,                \* the log line that preceded the shutdown that took effect
    signalled,            \* 'Received SIGINT.' or 'Received SIGTERM.' has been logged
    dl,                   \* ensureBinary: "found", "get", "piping", "done" or "failed"
    depth,                \* depth of the followRedirects call whose request is in flight
    file,                 \* what is at BINARY_PATH: "absent", "partial" or "complete"
    listening,            \* the server is bound to the control port
    ops,                  \* what the last callback did in shutdown(), in order
    activityAt            \* when the last activity event happened

\* the room coordination service, a process of its own
VARIABLES
    rooms,                \* the Map rooms: room code -> [players, lastActivity]
    currentRoom,          \* per socket: currentRoom of its connection closure
    ioSockets,            \* the ids in io.sockets.sockets
    emitted,              \* what the last callback emitted, in order
    roomNow,              \* Date.now() of the service
    roomAdvances          \* how many times that clock has moved

roomVars == <<rooms, currentRoom, ioSockets, emitted, roomNow, roomAdvances>>

launcherVars == <<phase, exitCode, now, advances, lanPlayProc, lanPlayRunning, lastHeartbeat,
          hasReceivedHeartbeat, lastActivity, shuttingDown, connectedClients,
          procState, procKilled, killCalls, readyState, msgHandlers, sent,
          shutdownSent, closeCalls, monitorDue, restartTimers, exitTimers, cause,
          signalled, dl, depth, file, listening, ops, activityAt>>

vars == <<launcherVars, roomVars>>

startVars == <<dl, depth, file, listening>>

procVars == <<lanPlayProc, lanPlayRunning, procState>>

killVars == <<procKilled, killCalls>>

clockVars == <<lastHeartbeat, hasReceivedHeartbeat, lastActivity>>

wsVars == <<connectedClients, readyState, msgHandlers, closeCalls>>

timerVars == <<monitorDue, restartTimers, exitTimers>>

\* ---------------------------------------------------------------- helpers
\* the due times of all pending timers
PendingDue ==
    (IF monitorDue = 0 THEN {} ELSE {monitorDue})
        \cup {restartTimers[i] : i \in DOMAIN restartTimers}
        \cup {exitTimers[i] : i \in DOMAIN exitTimers}

\* a timer due at d may run: it is due and no pending timer is due earlier
MayFire(d) == d <= now /\ \A e \in PendingDue : d <= e

RemoveAt(s, i) == SubSeq(s, 1, i - 1) \o SubSeq(s, i + 1, Len(s))

\* getStatus(): relay, platform and version are constants of the run
getStatus == [running |-> lanPlayRunning]

StatusMsg(st) == [type |-> "status", data |-> st]

HeartbeatAck == [type |-> "heartbeat-ack"]

ShutdownMsg == [type |-> "shutdown", reason |-> "timeout"]

\* wsSend(ws, obj) applied to the log ob of what was sent
wsSend(ob, ws, obj) ==
    IF readyState[ws] = OPEN THEN [ob EXCEPT ![ws] = Append(@, obj)] ELSE ob

\* broadcastStatus() with lanPlayRunning = running, applied to the log ob
broadcastStatus(ob, running) ==
    [ws \in Sockets |->
        IF ws \in connectedClients /\ readyState[ws] = OPEN
        THEN Append(ob[ws], StatusMsg([running |-> running]))
        ELSE ob[ws]]

\* JSON.parse(raw) followed by the read of msg.type: "throw" when either throws
MsgType(raw) ==
    CASE raw = "{\"type\":\"heartbeat\"}" -> "heartbeat"
      [] raw = "{\"type\":\"status\"}" -> "status"
      [] raw = "{\"type\":\"ping\"}" -> "ping"
      [] OTHER -> "throw"

\* the payloads that the test msg.type === 'heartbeat' accepts
Heartbeats == {raw \in Payloads : MsgType(raw) = "heartbeat"}

\* nothing has been passed to ws.send
Silent == [ws \in Sockets |-> <<>>]

\* -------------------------------------- the room service: its state
MaxRoomSockets == 3

MaxRoomAdvances == 2

MAX_PLAYERS == 2

ROOM_TTL_MS == 30 * 60 * 1000

minCodeLen == 2

maxCodeLen == 20

RoomSockets == 1..MaxRoomSockets

\* null, for a room code and for currentRoom; a string is a sequence of
\* its characters
NoCode == <<>>

gateway == "10.13.37.1"

\* the addresses Math.random() is seen to produce
IPs == {gateway, "10.13.1.1", "10.13.1.2"}

RoomSteps == {ROOM_TTL_MS + 1}

\* the module state at load; a socket id that names no connection has
\* currentRoom null, as a new connection has
RoomAtLoad ==
    /\ rooms = <<>>
    /\ currentRoom = [s \in RoomSockets |-> NoCode]
    /\ ioSockets = {}
    /\ emitted = <<>>
    /\ roomNow = StartTime
    /\ roomAdvances = 0

Init ==
    /\ phase = "await"
    /\ exitCode = -1
    /\ now = StartTime
    /\ advances = 0
    /\ lanPlayProc = 0
    /\ lanPlayRunning = FALSE
    /\ lastHeartbeat = 0
    /\ hasReceivedHeartbeat = FALSE
    /\ lastActivity = StartTime
    /\ shuttingDown = FALSE
    /\ connectedClients = {}
    /\ procState = [p \in Procs |-> "none"]
    /\ procKilled = [p \in Procs |-> FALSE]
    /\ killCalls = [p \in Procs |-> 0]
    /\ readyState = [ws \in Sockets |-> 0]
    /\ msgHandlers = {}
    /\ sent = Silent
    /\ shutdownSent = [ws \in Sockets |-> 0]
    /\ closeCalls = [ws \in Sockets |-> 0]
    /\ monitorDue = 0
    /\ restartTimers = <<>>
    /\ exitTimers = <<>>
    /\ cause = "none"
    /\ signalled = FALSE
    /\ file \in {"complete", "partial"}
    /\ dl = IF file = "complete" THEN "found" ELSE "get"
    /\ depth = 0
    /\ listening = FALSE
    /\ ops = <<>>
    /\ activityAt = StartTime
    /\ RoomAtLoad



\* ------------------------------------------------------- the subprocess
Spawned == Cardinality({p \in Procs : procState[p] # "none"})

\* startLanPlay().  spawn() returns a ChildProcess either way; ok says whether
\* the executable could be run.  When it could not, Node emits 'error' from
\* process.nextTick, before any other event is handled, so the 'error'
\* listener (lanPlayRunning = false) is part of the same step: it runs after
\* the broadcast that the last line of startLanPlay makes.
spawnLanPlay(p, ok) ==
    /\ lanPlayProc' = p
    /\ procState' = [procState EXCEPT ![p] = IF ok THEN "alive" ELSE "errored"]
    /\ lanPlayRunning' = ok
    /\ lastActivity' = now
    /\ activityAt' = now
    /\ sent' = broadcastStatus(Silent, TRUE)

\* every spawn() makes a new ChildProcess, numbered in order of creation
startLanPlay(ok) ==
    LET p == Spawned + 1 IN
    /\ p \in Procs
    /\ spawnLanPlay(p, ok)

\* onError of ensureBinary() and the catch of main(), which run in one turn:
\* fs.unlink(BINARY_PATH) is asynchronous, its callback ignores the outcome,
\* and neither reject() nor process.exit(1) waits for it, so removed says
\* whether the file was gone when the process ended.
downloadFailed(removed) ==
    /\ dl' = "failed"
    /\ file' = IF removed THEN "absent" ELSE file
    /\ phase' = "exited"
    /\ exitCode' = 1

\* followRedirects() with the limit tested by >=
followRedirects_OffByOne(d) ==
    IF d >= maxRedirectDepth
    THEN /\ \E removed \in BOOLEAN : downloadFailed(removed)
         /\ UNCHANGED depth
    ELSE /\ depth' = d
         /\ UNCHANGED <<dl, file, phase, exitCode>>

\* followRedirects(url, onResponse, onError, d) up to its call of get
followRedirects(d) ==
    IF d > maxRedirectDepth
    THEN /\ \E removed \in BOOLEAN : downloadFailed(removed)
         /\ UNCHANGED depth
    ELSE /\ depth' = d
         /\ UNCHANGED <<dl, file, phase, exitCode>>

\* the callback of get for the response res
Response(res) ==
    /\ phase = "await"
    /\ dl = "get"
    /\ IF res.statusCode >= 300 /\ res.statusCode < 400 /\ res.location
       THEN followRedirects(depth + 1)
       ELSE IF res.statusCode # 200
       THEN /\ \E removed \in BOOLEAN : downloadFailed(removed)
            /\ UNCHANGED depth
       ELSE /\ dl' = "piping"
            /\ UNCHANGED <<depth, file, phase, exitCode>>
    /\ sent' = Silent
    /\ ops' = <<>>
    /\ UNCHANGED <<signalled, listening, now, advances, procVars, clockVars, activityAt,
                   shuttingDown, wsVars, killVars, shutdownSent, timerVars, cause>>
    /\ UNCHANGED roomVars

\* the 'error' listener of the request: onError
RequestError ==
    /\ phase = "await"
    /\ dl = "get"
    /\ \E removed \in BOOLEAN : downloadFailed(removed)
    /\ sent' = Silent
    /\ ops' = <<>>
    /\ UNCHANGED <<signalled, depth, listening, now, advances, procVars, clockVars,
                   activityAt, shuttingDown, wsVars, killVars, shutdownSent, timerVars,
                   cause>>
    /\ UNCHANGED roomVars

\* The connection ends before the body is complete.  The response emits
\* 'error' ("aborted"), for which neither ensureBinary() nor pipe() has a
\* listener: the process ends by the uncaught exception, onError never runs
\* and the file stays as far as it was written.
ResponseAborted ==
    /\ phase = "await"
    /\ dl = "piping"
    /\ dl' = "failed"
    /\ phase' = "exited"
    /\ exitCode' = 1
    /\ sent' = Silent
    /\ ops' = <<>>
    /\ UNCHANGED <<signalled, depth, file, listening, now, advances, procVars, clockVars,
                   activityAt, shuttingDown, wsVars, killVars, shutdownSent, timerVars,
                   cause>>
    /\ UNCHANGED roomVars

\* main() with a server 'error' listener that only logs
Main_IgnoresBindError(portFree) ==
    /\ phase = "await"
    /\ dl \in {"found", "piping"}
    /\ dl' = "done"
    /\ depth' = 0
    /\ file' = "complete"
    /\ listening' = portFree
    /\ \E ok \in BOOLEAN : startLanPlay(ok)
    /\ monitorDue' = now + checkIntervalMs
    /\ phase' = "running"
    /\ ops' = <<>>
    /\ UNCHANGED <<exitCode, signalled, now, advances, lastHeartbeat, hasReceivedHeartbeat,
                   shuttingDown, wsVars, killVars, shutdownSent, restartTimers,
                   exitTimers, cause>>
    /\ UNCHANGED roomVars

\* main() from the point where ensureBinary() resolves, which it does when
\* the binary was found or in the 'finish' listener of the file, to its end.
\* portFree says whether the port could be bound; when it could not, the
\* 'error' listener of the server runs from process.nextTick, before any
\* other event is handled, and ends the process.
Main(portFree) ==
    /\ phase = "await"
    /\ dl \in {"found", "piping"}
    /\ dl' = "done"
    /\ depth' = 0
    /\ file' = "complete"
    /\ listening' = portFree
    /\ \E ok \in BOOLEAN : startLanPlay(ok)
    /\ monitorDue' = now + checkIntervalMs
    /\ phase' = IF portFree THEN "running" ELSE "exited"
    /\ exitCode' = IF portFree THEN exitCode ELSE 1
    /\ ops' = <<>>
    /\ UNCHANGED <<signalled, now, advances, lastHeartbeat, hasReceivedHeartbeat,
                   shuttingDown, wsVars, killVars, shutdownSent, restartTimers,
                   exitTimers, cause>>
    /\ UNCHANGED roomVars

\* the timer of setTimeout(startLanPlay, 3000) runs
RestartFire ==
    /\ phase = "running"
    /\ \E i \in DOMAIN restartTimers :
        /\ MayFire(restartTimers[i])
        /\ restartTimers' = RemoveAt(restartTimers, i)
    /\ \E ok \in BOOLEAN : startLanPlay(ok)
    /\ ops' = <<>>
    /\ UNCHANGED <<phase, exitCode, signalled, startVars, now, advances, lastHeartbeat, hasReceivedHeartbeat,
                   shuttingDown, wsVars, killVars, shutdownSent, monitorDue, exitTimers,
                   cause>>
    /\ UNCHANGED roomVars

\* lanPlayProc.stdout.on('data')
ProcStdout ==
    /\ phase = "running"
    /\ \E p \in Procs : procState[p] = "alive"
    /\ lastActivity' = now
    /\ activityAt' = now
    /\ sent' = broadcastStatus(Silent, lanPlayRunning)
    /\ ops' = <<>>
    /\ UNCHANGED <<phase, exitCode, signalled, startVars, now, advances, procVars, lastHeartbeat,
                   hasReceivedHeartbeat, shuttingDown, wsVars, killVars, shutdownSent,
                   timerVars, cause>>
    /\ UNCHANGED roomVars

\* lanPlayProc.stderr.on('data')
ProcStderr ==
    /\ phase = "running"
    /\ \E p \in Procs : procState[p] = "alive"
    /\ lastActivity' = now
    /\ activityAt' = now
    /\ sent' = Silent
    /\ ops' = <<>>
    /\ UNCHANGED <<phase, exitCode, signalled, startVars, now, advances, procVars, lastHeartbeat,
                   hasReceivedHeartbeat, shuttingDown, wsVars, killVars, shutdownSent,
                   timerVars, cause>>
    /\ UNCHANGED roomVars

\* lanPlayProc.on('close') without the test of shuttingDown
ProcClose_AlwaysRestart(p) ==
    /\ phase = "running"
    /\ procState[p] \in {"alive", "errored"}
    /\ shuttingDown \/ Spawned < MaxSpawns
    /\ procState' = [procState EXCEPT ![p] = "closed"]
    /\ lanPlayRunning' = FALSE
    /\ sent' = broadcastStatus(Silent, FALSE)
    /\ restartTimers' = Append(restartTimers, now + restartDelayMs)
    /\ ops' = <<>>
    /\ UNCHANGED <<phase, exitCode, signalled, startVars, now, advances, lanPlayProc, clockVars, activityAt,
                   shuttingDown, wsVars, killVars, shutdownSent, monitorDue, exitTimers,
                   cause>>
    /\ UNCHANGED roomVars

\* the restart scheduled by two listeners ('exit' and 'close') of a process
ProcClose_TwoRestarts(p) ==
    /\ phase = "running"
    /\ procState[p] \in {"alive", "errored"}
    /\ shuttingDown \/ Spawned < MaxSpawns
    /\ procState' = [procState EXCEPT ![p] = "closed"]
    /\ lanPlayRunning' = FALSE
    /\ sent' = broadcastStatus(Silent, FALSE)
    /\ restartTimers' = IF ~shuttingDown
                        THEN restartTimers \o <<now + restartDelayMs, now + restartDelayMs>>
                        ELSE restartTimers
    /\ ops' = <<>>
    /\ UNCHANGED <<phase, exitCode, signalled, startVars, now, advances, lanPlayProc, clockVars, activityAt,
                   shuttingDown, wsVars, killVars, shutdownSent, monitorDue, exitTimers,
                   cause>>
    /\ UNCHANGED roomVars

\* lanPlayProc.on('close') of process p: it has exited (or could not be
\* spawned) and its stdio is closed.
onClose(p) ==
    /\ phase = "running"
    /\ procState[p] \in {"alive", "errored"}
    /\ procState' = [procState EXCEPT ![p] = "closed"]
    /\ lanPlayRunning' = FALSE
    /\ sent' = broadcastStatus(Silent, FALSE)
    /\ restartTimers' = IF ~shuttingDown
                        THEN Append(restartTimers, now + restartDelayMs)
                        ELSE restartTimers
    /\ ops' = <<>>
    /\ UNCHANGED <<phase, exitCode, signalled, startVars, now, advances, lanPlayProc, clockVars, activityAt,
                   shuttingDown, wsVars, killVars, shutdownSent, monitorDue, exitTimers,
                   cause>>
    /\ UNCHANGED roomVars

\* The last process the model can spawn does not crash, so that a restart
\* that is scheduled can always run.
ProcClose(p) ==
    /\ shuttingDown \/ Spawned < MaxSpawns
    /\ onClose(p)

\* ---------------------------------------------------- the control channel
\* wss.on('connection') without the return that ends the rejection
Connect_NoReturn(ws, forwarded) ==
    /\ phase = "running"
    /\ readyState[ws] = 0
    /\ \A w \in Sockets : w < ws => readyState[w] # 0
    /\ readyState' = [readyState EXCEPT ![ws] = IF forwarded THEN CLOSING ELSE OPEN]
    /\ closeCalls' = [closeCalls EXCEPT ![ws] = IF forwarded THEN @ + 1 ELSE @]
    /\ connectedClients' = connectedClients \cup {ws}
    /\ lastActivity' = now
    /\ activityAt' = now
    /\ sent' = IF forwarded
               THEN Silent
               ELSE [Silent EXCEPT ![ws] = Append(@, StatusMsg(getStatus))]
    /\ msgHandlers' = msgHandlers \cup {ws}
    /\ ops' = <<>>
    /\ UNCHANGED <<phase, exitCode, signalled, startVars, now, advances, procVars, lastHeartbeat,
                   hasReceivedHeartbeat, shuttingDown, killVars, shutdownSent,
                   timerVars, cause>>
    /\ UNCHANGED roomVars

\* wss.on('connection') without the initial status message
Connect_NoStatus(ws, forwarded) ==
    /\ phase = "running"
    /\ readyState[ws] = 0
    /\ \A w \in Sockets : w < ws => readyState[w] # 0
    /\ IF forwarded
       THEN /\ readyState' = [readyState EXCEPT ![ws] = CLOSING]
            /\ closeCalls' = [closeCalls EXCEPT ![ws] = @ + 1]
            /\ UNCHANGED <<connectedClients, msgHandlers, lastActivity, activityAt>>
       ELSE /\ readyState' = [readyState EXCEPT ![ws] = OPEN]
            /\ connectedClients' = connectedClients \cup {ws}
            /\ lastActivity' = now
            /\ activityAt' = now
            /\ msgHandlers' = msgHandlers \cup {ws}
            /\ UNCHANGED closeCalls
    /\ sent' = Silent
    /\ ops' = <<>>
    /\ UNCHANGED <<phase, exitCode, signalled, startVars, now, advances, procVars, lastHeartbeat,
                   hasReceivedHeartbeat, shuttingDown, killVars, shutdownSent,
                   timerVars, cause>>
    /\ UNCHANGED roomVars

\* wss.on('connection') for a new socket, which takes the first free number;
\* forwarded: the request carries an x-forwarded-for header
Connect(ws, forwarded) ==
    /\ phase = "running"
    /\ readyState[ws] = 0
    /\ \A w \in Sockets : w < ws => readyState[w] # 0
    /\ IF forwarded
       THEN /\ readyState' = [readyState EXCEPT ![ws] = CLOSING]
            /\ closeCalls' = [closeCalls EXCEPT ![ws] = @ + 1]
            /\ sent' = Silent
            /\ UNCHANGED <<connectedClients, msgHandlers, lastActivity, activityAt>>
       ELSE /\ readyState' = [readyState EXCEPT ![ws] = OPEN]
            /\ connectedClients' = connectedClients \cup {ws}
            /\ lastActivity' = now
            /\ activityAt' = now
            /\ sent' = [Silent EXCEPT ![ws] = Append(@, StatusMsg(getStatus))]
            /\ msgHandlers' = msgHandlers \cup {ws}
            /\ UNCHANGED closeCalls
    /\ ops' = <<>>
    /\ UNCHANGED <<phase, exitCode, signalled, startVars, now, advances, procVars, lastHeartbeat,
                   hasReceivedHeartbeat, shuttingDown, killVars, shutdownSent,
                   timerVars, cause>>
    /\ UNCHANGED roomVars

\* ws.on('message') with the acknowledgement sent to every open client
ClientMessage_AckAll(ws, raw) ==
    /\ phase = "running"
    /\ ws \in msgHandlers
    /\ readyState[ws] \in {OPEN, CLOSING}
    /\ lastActivity' = now
    /\ activityAt' = now
    /\ IF MsgType(raw) = "heartbeat"
       THEN /\ lastHeartbeat' = now
            /\ hasReceivedHeartbeat' = TRUE
            /\ sent' = [w \in Sockets |->
                           IF w \in connectedClients /\ readyState[w] = OPEN
                           THEN <<HeartbeatAck>>
                           ELSE <<>>]
       ELSE /\ sent' = IF MsgType(raw) = "status"
                       THEN wsSend(Silent, ws, StatusMsg(getStatus))
                       ELSE Silent
            /\ UNCHANGED <<lastHeartbeat, hasReceivedHeartbeat>>
    /\ ops' = <<>>
    /\ UNCHANGED <<phase, exitCode, signalled, startVars, now, advances, procVars, shuttingDown, wsVars,
                   killVars, shutdownSent, timerVars, cause>>
    /\ UNCHANGED roomVars

\* ws.on('message') with hasReceivedHeartbeat following the type of the last
\* message
ClientMessage_FlagFollowsType(ws, raw) ==
    /\ phase = "running"
    /\ ws \in msgHandlers
    /\ readyState[ws] \in {OPEN, CLOSING}
    /\ lastActivity' = now
    /\ activityAt' = now
    /\ hasReceivedHeartbeat' = (MsgType(raw) = "heartbeat")
    /\ IF MsgType(raw) = "heartbeat"
       THEN /\ lastHeartbeat' = now
            /\ sent' = wsSend(Silent, ws, HeartbeatAck)
       ELSE /\ sent' = IF MsgType(raw) = "status"
                       THEN wsSend(Silent, ws, StatusMsg(getStatus))
                       ELSE Silent
            /\ UNCHANGED lastHeartbeat
    /\ ops' = <<>>
    /\ UNCHANGED <<phase, exitCode, signalled, startVars, now, advances, procVars, shuttingDown, wsVars,
                   killVars, shutdownSent, timerVars, cause>>
    /\ UNCHANGED roomVars

\* ws.on('message') that answers what it cannot handle with an error message
ClientMessage_ErrorReply(ws, raw) ==
    /\ phase = "running"
    /\ ws \in msgHandlers
    /\ readyState[ws] \in {OPEN, CLOSING}
    /\ lastActivity' = now
    /\ activityAt' = now
    /\ IF MsgType(raw) = "heartbeat"
       THEN /\ lastHeartbeat' = now
            /\ hasReceivedHeartbeat' = TRUE
            /\ sent' = wsSend(Silent, ws, HeartbeatAck)
       ELSE /\ sent' = IF MsgType(raw) = "status"
                       THEN wsSend(Silent, ws, StatusMsg(getStatus))
                       ELSE wsSend(Silent, ws, [type |-> "error"])
            /\ UNCHANGED <<lastHeartbeat, hasReceivedHeartbeat>>
    /\ ops' = <<>>
    /\ UNCHANGED <<phase, exitCode, signalled, startVars, now, advances, procVars, shuttingDown, wsVars,
                   killVars, shutdownSent, timerVars, cause>>
    /\ UNCHANGED roomVars

\* ws.on('message') of an accepted socket; the ws library delivers messages
\* until the closing handshake is complete
ClientMessage(ws, raw) ==
    /\ phase = "running"
    /\ ws \in msgHandlers
    /\ readyState[ws] \in {OPEN, CLOSING}
    /\ lastActivity' = now
    /\ activityAt' = now
    /\ IF MsgType(raw) = "heartbeat"
       THEN /\ lastHeartbeat' = now
            /\ hasReceivedHeartbeat' = TRUE
            /\ sent' = wsSend(Silent, ws, HeartbeatAck)
       ELSE /\ sent' = IF MsgType(raw) = "status"
                       THEN wsSend(Silent, ws, StatusMsg(getStatus))
                       ELSE Silent
            /\ UNCHANGED <<lastHeartbeat, hasReceivedHeartbeat>>
    /\ ops' = <<>>
    /\ UNCHANGED <<phase, exitCode, signalled, startVars, now, advances, procVars, shuttingDown, wsVars,
                   killVars, shutdownSent, timerVars, cause>>
    /\ UNCHANGED roomVars

\* the peer starts the closing handshake: the ws library answers the close
\* frame and the socket is CLOSING until the TCP connection ends
PeerClosing(ws) ==
    /\ phase = "running"
    /\ readyState[ws] = OPEN
    /\ readyState' = [readyState EXCEPT ![ws] = CLOSING]
    /\ sent' = Silent
    /\ ops' = <<>>
    /\ UNCHANGED <<phase, exitCode, signalled, startVars, now, advances, procVars, clockVars, activityAt,
                   shuttingDown, connectedClients, msgHandlers, closeCalls, killVars,
                   shutdownSent, timerVars, cause>>
    /\ UNCHANGED roomVars

\* ws.on('close') that shuts the launcher down when the last connection of
\* the set has gone
SocketClosed_ShutsDownWhenEmpty(ws) ==
    /\ phase = "running"
    /\ readyState[ws] \in {OPEN, CLOSING}
    /\ readyState' = [readyState EXCEPT ![ws] = 0]
    /\ connectedClients' = IF ws \in msgHandlers
                           THEN connectedClients \ {ws}
                           ELSE connectedClients
    /\ msgHandlers' = msgHandlers \ {ws}
    /\ closeCalls' = [closeCalls EXCEPT ![ws] = 0]
    /\ shutdownSent' = [shutdownSent EXCEPT ![ws] = 0]
    /\ sent' = Silent
    /\ ops' = <<>>
    /\ IF ~shuttingDown /\ ws \in msgHandlers /\ connectedClients \ {ws} = {}
       THEN /\ shuttingDown' = TRUE
            /\ cause' = "no clients"
            /\ exitTimers' = Append(exitTimers, now + exitDelayMs)
       ELSE UNCHANGED <<shuttingDown, cause, exitTimers>>
    /\ UNCHANGED <<phase, exitCode, signalled, startVars, now, advances, procVars, clockVars, activityAt,
                   killVars, monitorDue, restartTimers>>
    /\ UNCHANGED roomVars

\* The connection of a socket has ended.  For an accepted socket this is
\* ws.on('close'); a rejected one has no listener.  From here on the program
\* holds no reference to the socket, and its number names the next new one.
SocketClosed(ws) ==
    /\ phase = "running"
    /\ readyState[ws] \in {OPEN, CLOSING}
    /\ readyState' = [readyState EXCEPT ![ws] = 0]
    /\ connectedClients' = IF ws \in msgHandlers
                           THEN connectedClients \ {ws}
                           ELSE connectedClients
    /\ msgHandlers' = msgHandlers \ {ws}
    /\ closeCalls' = [closeCalls EXCEPT ![ws] = 0]
    /\ shutdownSent' = [shutdownSent EXCEPT ![ws] = 0]
    /\ sent' = Silent
    /\ ops' = <<>>
    /\ UNCHANGED <<phase, exitCode, signalled, startVars, now, advances, procVars, clockVars, activityAt,
                   shuttingDown, killVars, timerVars, cause>>
    /\ UNCHANGED roomVars

\* ------------------------------------------------------------- shutdown
shutdownVars == <<shuttingDown, cause, readyState, closeCalls, killVars, shutdownSent,
                  exitTimers>>

\* The orders in which the sockets of S may be iterated.  The program
\* iterates connectedClients in insertion order, which the numbers of the
\* sockets do not record.
Orders(S) ==
    {o \in [1..Cardinality(S) -> S] :
        \A i, j \in 1..Cardinality(S) : i # j => o[i] # o[j]}

\* the loop of shutdown() with ws.close() before wsSend
RECURSIVE notifyOps_CloseFirst(_, _)
notifyOps_CloseFirst(order, i) ==
    IF i > Cardinality(DOMAIN order)
    THEN <<>>
    ELSE <<<<"close", order[i]>>>>
         \o (IF readyState[order[i]] = OPEN THEN <<<<"send", order[i]>>>> ELSE <<>>)
         \o notifyOps_CloseFirst(order, i + 1)

\* the calls that the loop of shutdown() makes for the sockets in order, from
\* position i: wsSend, which sends to an open socket, then ws.close()
RECURSIVE notifyOps(_, _)
notifyOps(order, i) ==
    IF i > Cardinality(DOMAIN order)
    THEN <<>>
    ELSE (IF readyState[order[i]] = OPEN THEN <<<<"send", order[i]>>>> ELSE <<>>)
         \o <<<<"close", order[i]>>>>
         \o notifyOps(order, i + 1)

\* the calls that shutdown() makes below its guard, in order
shutdownOps(order) ==
    notifyOps(order, 1)
        \o (IF lanPlayProc # 0 /\ ~procKilled[lanPlayProc]
            THEN <<<<"kill", lanPlayProc>>>>
            ELSE <<>>)
        \o <<<<"setTimeout", exitDelayMs>>>>

\* the body of shutdown() if kill() of a dead process threw: the exit timer
\* is never set
teardown_KillThrows(why) ==
    /\ shuttingDown' = TRUE
    /\ cause' = why
    /\ sent' = [ws \in Sockets |->
                   IF ws \in connectedClients
                   THEN wsSend(Silent, ws, ShutdownMsg)[ws]
                   ELSE <<>>]
    /\ shutdownSent' = [ws \in Sockets |->
                           IF ws \in connectedClients /\ readyState[ws] = OPEN
                           THEN shutdownSent[ws] + 1
                           ELSE shutdownSent[ws]]
    /\ readyState' = [ws \in Sockets |->
                         IF ws \in connectedClients /\ readyState[ws] = OPEN
                         THEN CLOSING
                         ELSE readyState[ws]]
    /\ closeCalls' = [ws \in Sockets |->
                         IF ws \in connectedClients
                         THEN closeCalls[ws] + 1
                         ELSE closeCalls[ws]]
    /\ IF lanPlayProc # 0 /\ ~procKilled[lanPlayProc]
       THEN /\ killCalls' = [killCalls EXCEPT ![lanPlayProc] = @ + 1]
            /\ procKilled' = [procKilled EXCEPT
                                 ![lanPlayProc] = (procState[lanPlayProc] = "alive")]
       ELSE UNCHANGED killVars
    /\ exitTimers' = IF lanPlayProc # 0 /\ procState[lanPlayProc] # "alive"
                     THEN exitTimers
                     ELSE Append(exitTimers, now + exitDelayMs)
    /\ \E order \in Orders(connectedClients) : ops' = shutdownOps(order)

\* The body of shutdown() below its guard, called after the log line why.
\* It writes shutdownVars and sent.  ChildProcess.kill() sets .killed only
\* when the signal could be sent, that is when the process has not exited.
teardown(why) ==
    /\ shuttingDown' = TRUE
    /\ cause' = why
    /\ sent' = [ws \in Sockets |->
                   IF ws \in connectedClients
                   THEN wsSend(Silent, ws, ShutdownMsg)[ws]
                   ELSE <<>>]
    /\ shutdownSent' = [ws \in Sockets |->
                           IF ws \in connectedClients /\ readyState[ws] = OPEN
                           THEN shutdownSent[ws] + 1
                           ELSE shutdownSent[ws]]
    /\ readyState' = [ws \in Sockets |->
                         IF ws \in connectedClients /\ readyState[ws] = OPEN
                         THEN CLOSING
                         ELSE readyState[ws]]
    /\ closeCalls' = [ws \in Sockets |->
                         IF ws \in connectedClients
                         THEN closeCalls[ws] + 1
                         ELSE closeCalls[ws]]
    /\ IF lanPlayProc # 0 /\ ~procKilled[lanPlayProc]
       THEN /\ killCalls' = [killCalls EXCEPT ![lanPlayProc] = @ + 1]
            /\ procKilled' = [procKilled EXCEPT
                                 ![lanPlayProc] = (procState[lanPlayProc] = "alive")]
       ELSE UNCHANGED killVars
    /\ exitTimers' = Append(exitTimers, now + exitDelayMs)
    /\ \E order \in Orders(connectedClients) : ops' = shutdownOps(order)

\* shutdown() without its guard on shuttingDown
shutdown_NoGuard(why) == teardown(why)

\* shutdown() with its guard placed after the exit timer is set
shutdown_LateGuard(why) ==
    IF shuttingDown
    THEN /\ sent' = Silent
         /\ ops' = <<<<"setTimeout", exitDelayMs>>>>
         /\ exitTimers' = Append(exitTimers, now + exitDelayMs)
         /\ UNCHANGED <<shuttingDown, cause, readyState, closeCalls, killVars, shutdownSent>>
    ELSE teardown(why)

\* shutdown(), called after the log line why
shutdown(why) ==
    IF shuttingDown
    THEN /\ sent' = Silent
         /\ ops' = <<>>
         /\ UNCHANGED shutdownVars
    ELSE teardown(why)

\* monitorCheck with the heartbeat test not guarded by hasReceivedHeartbeat
monitorCheck_NoFlag ==
    IF shuttingDown
    THEN /\ sent' = Silent
         /\ ops' = <<>>
         /\ UNCHANGED shutdownVars
    ELSE IF now - lastHeartbeat > heartbeatTimeoutMs
    THEN shutdown("no heartbeat")
    ELSE IF now - lastActivity > inactivityTimeoutMs
    THEN shutdown("no activity")
    ELSE /\ sent' = Silent
         /\ ops' = <<>>
         /\ UNCHANGED shutdownVars

\* monitorCheck with the heartbeat age compared to the inactivity timeout
monitorCheck_WrongTimeout ==
    IF shuttingDown
    THEN /\ sent' = Silent
         /\ ops' = <<>>
         /\ UNCHANGED shutdownVars
    ELSE IF hasReceivedHeartbeat /\ now - lastHeartbeat > inactivityTimeoutMs
    THEN shutdown("no heartbeat")
    ELSE IF now - lastActivity > inactivityTimeoutMs
    THEN shutdown("no activity")
    ELSE /\ sent' = Silent
         /\ ops' = <<>>
         /\ UNCHANGED shutdownVars

\* monitorCheck with >= in the inactivity test
monitorCheck_OffByOne ==
    IF shuttingDown
    THEN /\ sent' = Silent
         /\ ops' = <<>>
         /\ UNCHANGED shutdownVars
    ELSE IF hasReceivedHeartbeat /\ now - lastHeartbeat > heartbeatTimeoutMs
    THEN shutdown("no heartbeat")
    ELSE IF now - lastActivity >= inactivityTimeoutMs
    THEN shutdown("no activity")
    ELSE /\ sent' = Silent
         /\ ops' = <<>>
         /\ UNCHANGED shutdownVars

\* monitorCheck with the inactivity test made only once a heartbeat was seen
monitorCheck_InactivityNeedsHeartbeat ==
    IF shuttingDown
    THEN /\ sent' = Silent
         /\ ops' = <<>>
         /\ UNCHANGED shutdownVars
    ELSE IF hasReceivedHeartbeat /\ now - lastHeartbeat > heartbeatTimeoutMs
    THEN shutdown("no heartbeat")
    ELSE IF hasReceivedHeartbeat /\ now - lastActivity > inactivityTimeoutMs
    THEN shutdown("no activity")
    ELSE /\ sent' = Silent
         /\ ops' = <<>>
         /\ UNCHANGED shutdownVars

\* monitorCheck with the inactivity test made before the heartbeat test
monitorCheck_InactivityFirst ==
    IF shuttingDown
    THEN /\ sent' = Silent
         /\ ops' = <<>>
         /\ UNCHANGED shutdownVars
    ELSE IF now - lastActivity > inactivityTimeoutMs
    THEN shutdown("no activity")
    ELSE IF hasReceivedHeartbeat /\ now - lastHeartbeat > heartbeatTimeoutMs
    THEN shutdown("no heartbeat")
    ELSE /\ sent' = Silent
         /\ ops' = <<>>
         /\ UNCHANGED shutdownVars

\* the body of the setInterval callback of startShutdownMonitor()
monitorCheck ==
    IF shuttingDown
    THEN /\ sent' = Silent
         /\ ops' = <<>>
         /\ UNCHANGED shutdownVars
    ELSE IF hasReceivedHeartbeat /\ now - lastHeartbeat > heartbeatTimeoutMs
    THEN shutdown("no heartbeat")
    ELSE IF now - lastActivity > inactivityTimeoutMs
    THEN shutdown("no activity")
    ELSE /\ sent' = Silent
         /\ ops' = <<>>
         /\ UNCHANGED shutdownVars

\* one run of the setInterval callback: the timer is due again one interval
\* after this run
MonitorTick ==
    /\ phase = "running"
    /\ monitorDue # 0
    /\ MayFire(monitorDue)
    /\ monitorDue' = now + checkIntervalMs
    /\ monitorCheck
    /\ UNCHANGED <<phase, exitCode, signalled, startVars, now, advances, procVars, clockVars, activityAt,
                   connectedClients, msgHandlers, restartTimers>>
    /\ UNCHANGED roomVars

\* process.on('SIGINT') and process.on('SIGTERM'): the two listeners differ
\* in the text they log only.  When the binary is found, main() runs to its
\* end in the turn that loaded the module, before any event is handled.
Signal ==
    /\ phase # "exited"
    /\ dl # "found"
    /\ signalled' = TRUE
    /\ shutdown("signal")
    /\ UNCHANGED <<phase, exitCode, startVars, now, advances, procVars, clockVars, activityAt,
                   connectedClients, msgHandlers, monitorDue, restartTimers>>
    /\ UNCHANGED roomVars

\* the timer of setTimeout(process.exit(0), 1000) runs
ExitFire ==
    /\ phase # "exited"
    /\ \E i \in DOMAIN exitTimers : MayFire(exitTimers[i])
    /\ phase' = "exited"
    /\ exitCode' = 0
    /\ sent' = Silent
    /\ ops' = <<>>
    /\ UNCHANGED <<signalled, startVars, now, advances, procVars, clockVars, activityAt,
                   shuttingDown, wsVars, killVars, shutdownSent, timerVars, cause>>
    /\ UNCHANGED roomVars

\* ------------------------------------------------------------ the clock
\* Before main resumes, the time that passes shows only in the exit timer,
\* so the clock is moved there only once shutdown has begun.
AdvanceTime(d) ==
    /\ phase = "running" \/ (phase = "await" /\ shuttingDown)
    /\ advances < MaxAdvances
    /\ now' = now + d
    /\ advances' = advances + 1
    /\ sent' = Silent
    /\ ops' = <<>>
    /\ UNCHANGED <<phase, exitCode, signalled, startVars, procVars, clockVars, activityAt, shuttingDown,
                   wsVars, killVars, shutdownSent, timerVars, cause>>
    /\ UNCHANGED roomVars

Next ==
    \/ \E res \in Responses : Response(res)
    \/ RequestError
    \/ ResponseAborted
    \/ \E portFree \in BOOLEAN : Main(portFree)
    \/ RestartFire
    \/ ProcStdout
    \/ ProcStderr
    \/ \E p \in Procs : ProcClose(p)
    \/ \E ws \in Sockets, forwarded \in BOOLEAN : Connect(ws, forwarded)
    \/ \E ws \in Sockets, raw \in Payloads : ClientMessage(ws, raw)
    \/ \E ws \in Sockets : PeerClosing(ws)
    \/ \E ws \in Sockets : SocketClosed(ws)
    \/ MonitorTick
    \/ Signal
    \/ ExitFire
    \/ \E d \in Steps : AdvanceTime(d)

Spec == Init /\ [][Next]_vars

\* The launcher of Spec when every request of the download is answered or
\* fails: the program sets no timeout on its requests, so it waits for as
\* long as the server stays silent.
DownloadSpec ==
    /\ Init
    /\ [][Next]_vars
    /\ WF_vars((\E res \in Responses : Response(res)) \/ RequestError)

\* ------------------------------------------- the unattended crash loop
\* The launcher left to itself for an unbounded time: the binary is present,
\* no browser ever connects, no signal arrives, and the subprocess prints
\* nothing; it may crash at any moment, as often as it likes.

\* Time passes until the earliest pending timer is due.  The state is kept
\* relative to the present: instead of moving Date.now() forward, every
\* stored time stamp and due time moves back by the same amount.  A stamp
\* older than its timeout is kept just past the timeout, which is all that
\* the comparisons of the monitor can tell.
Older(stamp, d, timeout) ==
    IF stamp - d < now - timeout - 1 THEN now - timeout - 1 ELSE stamp - d

timePasses ==
    /\ PendingDue # {}
    /\ \A e \in PendingDue : e > now
    /\ LET d == CHOOSE d \in {e - now : e \in PendingDue} :
                    \A e \in PendingDue : d <= e - now
       IN /\ monitorDue' = IF monitorDue = 0 THEN 0 ELSE monitorDue - d
          /\ restartTimers' = [i \in DOMAIN restartTimers |-> restartTimers[i] - d]
          /\ exitTimers' = [i \in DOMAIN exitTimers |-> exitTimers[i] - d]
          /\ lastActivity' = Older(lastActivity, d, inactivityTimeoutMs)
          /\ activityAt' = Older(activityAt, d, inactivityTimeoutMs)
          /\ lastHeartbeat' = IF hasReceivedHeartbeat
                              THEN Older(lastHeartbeat, d, heartbeatTimeoutMs)
                              ELSE lastHeartbeat
    /\ sent' = Silent
    /\ ops' = <<>>
    /\ UNCHANGED <<phase, exitCode, signalled, startVars, now, advances, procVars,
                   hasReceivedHeartbeat, shuttingDown, wsVars, killVars, shutdownSent,
                   cause>>
    /\ UNCHANGED roomVars

Elapse == phase = "running" /\ timePasses

\* The restart timer calls startLanPlay().  The program keeps no reference to
\* the process that lanPlayProc held, so the new ChildProcess takes its number.
Respawn ==
    /\ phase = "running"
    /\ lanPlayProc # 0
    /\ \E i \in DOMAIN restartTimers :
        /\ MayFire(restartTimers[i])
        /\ restartTimers' = RemoveAt(restartTimers, i)
    /\ \E ok \in BOOLEAN : spawnLanPlay(lanPlayProc, ok)
    /\ procKilled' = [procKilled EXCEPT ![lanPlayProc] = FALSE]
    /\ killCalls' = [killCalls EXCEPT ![lanPlayProc] = 0]
    /\ ops' = <<>>
    /\ UNCHANGED <<phase, exitCode, signalled, startVars, now, advances, lastHeartbeat,
                   hasReceivedHeartbeat, shuttingDown, wsVars, shutdownSent, monitorDue,
                   exitTimers, cause>>
    /\ UNCHANGED roomVars

LoopInit == Init /\ dl = "found"

LoopNext ==
    \/ \E portFree \in BOOLEAN : Main(portFree)
    \/ \E p \in Procs : onClose(p)
    \/ Respawn
    \/ MonitorTick
    \/ ExitFire
    \/ Elapse

\* Node runs a timer that is due, and the clock does not stop.
LoopSpec ==
    /\ LoopInit
    /\ [][LoopNext]_vars
    /\ WF_vars(\E portFree \in BOOLEAN : Main(portFree))
    /\ WF_vars(Respawn)
    /\ WF_vars(MonitorTick)
    /\ WF_vars(ExitFire)
    /\ WF_vars(Elapse)

\* ------------------------------------------------- the grace period
\* The launcher of Spec, with the time after shutdown() left unbounded: once
\* shutdown has begun the clock goes on to every pending timer, and Node
\* runs the timers that are due.
GraceElapse == shuttingDown /\ phase # "exited" /\ timePasses

FairNext == Next \/ GraceElapse

FairSpec ==
    /\ Init
    /\ [][FairNext]_vars
    /\ WF_vars(RestartFire)
    /\ WF_vars(MonitorTick)
    /\ WF_vars(ExitFire)
    /\ WF_vars(GraceElapse)

\* ------------------------------------------------ the room service
\* String.prototype.toUpperCase, on the characters the inputs use
Upper(c) ==
    CASE c = "a" -> "A"
      [] c = "b" -> "B"
      [] OTHER -> c

RECURSIVE TrimStart(_)
TrimStart(str) ==
    IF str # <<>> /\ Head(str) = " " THEN TrimStart(Tail(str)) ELSE str

RECURSIVE TrimEnd(_)
TrimEnd(str) ==
    IF str # <<>> /\ str[Len(str)] = " "
    THEN TrimEnd(SubSeq(str, 1, Len(str) - 1))
    ELSE str

\* normalizeCode(data && data.code): data says whether the code is a string
\* and, if so, which
normalizeCode(data) ==
    IF ~data.isString
    THEN NoCode
    ELSE LET t == TrimEnd(TrimStart(data.chars))
             trimmed == [i \in 1..Len(t) |-> Upper(t[i])]
         IN IF Len(trimmed) < minCodeLen \/ Len(trimmed) > maxCodeLen
            THEN NoCode
            ELSE trimmed

\* what a client may send with join-room
JoinData ==
    {[isString |-> TRUE, chars |-> <<"a", "a">>],
     [isString |-> TRUE, chars |-> <<" ", "A", "A", " ">>],
     [isString |-> TRUE, chars |-> <<"b", "b">>],
     [isString |-> TRUE, chars |-> <<"a">>],
     [isString |-> TRUE, chars |-> [i \in 1..(maxCodeLen + 1) |-> "a"]],
     [isString |-> FALSE, chars |-> <<>>]}

\* s.emit(ev, {playerCount: n, assignedIP: ip}); the events that carry
\* neither have n = 0 and ip = ""
Emit(to, ev, n, ip) == [to |-> to, ev |-> ev, playerCount |-> n, assignedIP |-> ip]

\* A players Map is the sequence of its entries [id, ip] in insertion order.
Ids(players) == {players[i].id : i \in DOMAIN players}

RECURSIVE Without(_, _)
Without(players, id) ==
    IF players = <<>> THEN <<>>
    ELSE IF Head(players).id = id THEN Without(Tail(players), id)
    ELSE <<Head(players)>> \o Without(Tail(players), id)

\* for (const [id, info] of players): s.emit(ev, ...) to the sockets that
\* io.sockets.sockets still holds
RECURSIVE EmitToAll(_, _, _, _)
EmitToAll(players, present, ev, n) ==
    IF players = <<>> THEN <<>>
    ELSE (IF Head(players).id \in present
          THEN <<Emit(Head(players).id, ev, n,
                      IF ev = "room-expired" THEN "" ELSE Head(players).ip)>>
          ELSE <<>>)
         \o EmitToAll(Tail(players), present, ev, n)

RemoveRoom(rs, code) == [c \in DOMAIN rs \ {code} |-> rs[c]]

PutRoom(rs, code, room) ==
    [c \in DOMAIN rs \cup {code} |-> IF c = code THEN room ELSE rs[c]]

\* leaveRoom(sock, code) that keeps a room whose last player has left
roomsAfterLeave_KeepsEmpty(rs, sock, code) ==
    IF code \notin DOMAIN rs
    THEN rs
    ELSE PutRoom(rs, code, [players |-> Without(rs[code].players, sock),
                            lastActivity |-> roomNow])

\* leaveRoom(sock, code): the room table it leaves, and what it emits
roomsAfterLeave(rs, sock, code) ==
    IF code \notin DOMAIN rs
    THEN rs
    ELSE LET left == Without(rs[code].players, sock)
         IN IF left = <<>>
            THEN RemoveRoom(rs, code)
            ELSE PutRoom(rs, code, [players |-> left, lastActivity |-> roomNow])

emitsOfLeave(rs, present, sock, code) ==
    IF code \notin DOMAIN rs
    THEN <<>>
    ELSE LET left == Without(rs[code].players, sock)
         IN EmitToAll(left, present, "partner-left", Len(left))

\* io.on('connection'): a new closure with currentRoom = null
RoomConnect(s) ==
    /\ s \notin ioSockets
    /\ ioSockets' = ioSockets \cup {s}
    /\ currentRoom' = [currentRoom EXCEPT ![s] = NoCode]
    /\ emitted' = <<>>
    /\ UNCHANGED <<rooms, roomNow, roomAdvances>>
    /\ UNCHANGED launcherVars

\* socket.on('join-room').  generateIP() draws addresses until one is neither
\* the gateway nor used in the room.  The field created of a room is written
\* and never read, and socket.join/leave change only the rooms of socket.io,
\* which this program never reads.
JoinRoom(s, data) ==
    /\ s \in ioSockets
    /\ LET code == normalizeCode(data)
           prev == currentRoom[s]
           r1 == IF prev # NoCode THEN roomsAfterLeave(rooms, s, prev) ELSE rooms
           e1 == IF prev # NoCode THEN emitsOfLeave(rooms, ioSockets, s, prev) ELSE <<>>
           r2 == IF code \in DOMAIN r1
                 THEN r1
                 ELSE PutRoom(r1, code, [players |-> <<>>, lastActivity |-> roomNow])
       IN IF code = NoCode
          THEN /\ emitted' = <<Emit(s, "room-error", 0, "")>>
               /\ UNCHANGED <<rooms, currentRoom>>
          ELSE IF Len(r2[code].players) >= MAX_PLAYERS
          THEN /\ rooms' = r2
               /\ emitted' = e1 \o <<Emit(s, "room-full", 0, "")>>
               /\ UNCHANGED currentRoom
          ELSE \E assignedIP \in IPs :
               /\ assignedIP # gateway
               /\ \A i \in DOMAIN r2[code].players : r2[code].players[i].ip # assignedIP
               /\ LET players == Append(r2[code].players, [id |-> s, ip |-> assignedIP])
                  IN /\ rooms' = PutRoom(r2, code, [players |-> players,
                                                   lastActivity |-> roomNow])
                     /\ emitted' = e1 \o <<Emit(s, "room-joined", Len(players), assignedIP)>>
                                     \o (IF Len(players) = 2
                                         THEN EmitToAll(players, ioSockets, "partner-joined", 2)
                                         ELSE <<>>)
               /\ currentRoom' = [currentRoom EXCEPT ![s] = code]
    /\ UNCHANGED <<ioSockets, roomNow, roomAdvances>>
    /\ UNCHANGED launcherVars

\* socket.on('leave-room')
LeaveRoom(s) ==
    /\ s \in ioSockets
    /\ IF currentRoom[s] # NoCode
       THEN /\ rooms' = roomsAfterLeave(rooms, s, currentRoom[s])
            /\ emitted' = emitsOfLeave(rooms, ioSockets, s, currentRoom[s])
            /\ currentRoom' = [currentRoom EXCEPT ![s] = NoCode]
       ELSE /\ emitted' = <<>>
            /\ UNCHANGED <<rooms, currentRoom>>
    /\ UNCHANGED <<ioSockets, roomNow, roomAdvances>>
    /\ UNCHANGED launcherVars

\* socket.on('disconnect'): socket.io has removed the socket from
\* io.sockets.sockets when the listener runs.  The closure ends with the
\* connection.
RoomDisconnect(s) ==
    /\ s \in ioSockets
    /\ ioSockets' = ioSockets \ {s}
    /\ IF currentRoom[s] # NoCode
       THEN /\ rooms' = roomsAfterLeave(rooms, s, currentRoom[s])
            /\ emitted' = emitsOfLeave(rooms, ioSockets \ {s}, s, currentRoom[s])
       ELSE /\ emitted' = <<>>
            /\ UNCHANGED rooms
    /\ currentRoom' = [currentRoom EXCEPT ![s] = NoCode]
    /\ UNCHANGED <<roomNow, roomAdvances>>
    /\ UNCHANGED launcherVars

Expired == {code \in DOMAIN rooms : roomNow - rooms[code].lastActivity > ROOM_TTL_MS}

RECURSIVE emitsOfSweep(_, _)
emitsOfSweep(order, i) ==
    IF i > Len(order) THEN <<>>
    ELSE EmitToAll(rooms[order[i]].players, ioSockets, "room-expired", 0)
         \o emitsOfSweep(order, i + 1)

\* The callback of the cleanup setInterval.  The rooms are visited in the
\* insertion order of the Map, which the model does not keep: any order.
Sweep ==
    /\ rooms' = [c \in DOMAIN rooms \ Expired |-> rooms[c]]
    /\ \E order \in Orders(Expired) : emitted' = emitsOfSweep(order, 1)
    /\ UNCHANGED <<currentRoom, ioSockets, roomNow, roomAdvances>>
    /\ UNCHANGED launcherVars

\* Date.now() of the service between callbacks
RoomClock(d) ==
    /\ roomAdvances < MaxRoomAdvances
    /\ roomNow' = roomNow + d
    /\ roomAdvances' = roomAdvances + 1
    /\ emitted' = <<>>
    /\ UNCHANGED <<rooms, currentRoom, ioSockets>>
    /\ UNCHANGED launcherVars

\* the launcher does not run; the two processes share no state
RoomInit == Init /\ dl = "found"

RoomNext ==
    \/ \E s \in RoomSockets : RoomConnect(s)
    \/ \E s \in RoomSockets, data \in JoinData : JoinRoom(s, data)
    \/ \E s \in RoomSockets : LeaveRoom(s)
    \/ \E s \in RoomSockets : RoomDisconnect(s)
    \/ Sweep
    \/ \E d \in RoomSteps : RoomClock(d)

RoomSpec == RoomInit /\ [][RoomNext]_vars

\* ------------------------------------------------------------ the claims
\* the monitor has just run at the present instant, later than main did
TickedNow == phase = "running" /\ monitorDue = now + checkIntervalMs /\ now > StartTime

\* C1: while no heartbeat has ever been received (hasReceivedHeartbeat is
\* false) the heartbeat-timeout condition never starts a shutdown, whatever
\* the time elapsed: a shutdown logged as "no heartbeat" implies the flag.
C1_NoHeartbeatTimeoutWithoutHeartbeat ==
    cause = "no heartbeat" => hasReceivedHeartbeat

\* C1 witness: the monitor has run more than the heartbeat timeout after the
\* initial lastHeartbeat, no heartbeat was ever received, and nothing shut down
C1_Witness ==
    /\ TickedNow
    /\ ~hasReceivedHeartbeat
    /\ now - lastHeartbeat > heartbeatTimeoutMs
    /\ ~shuttingDown

\* C2: a monitor tick that finds shutdown not begun, a heartbeat received
\* once and the last one older than the heartbeat timeout starts the shutdown
\* with the reason "no heartbeat".
C2_HeartbeatTimeoutFires ==
    [][(~shuttingDown /\ hasReceivedHeartbeat
            /\ now - lastHeartbeat > heartbeatTimeoutMs /\ MonitorTick)
        => (shuttingDown' /\ cause' = "no heartbeat")]_vars

\* C2 witness: a shutdown for "no heartbeat" has begun at this instant
C2_Witness ==
    /\ TickedNow
    /\ shuttingDown
    /\ cause = "no heartbeat"
    /\ hasReceivedHeartbeat
    /\ now - lastHeartbeat > heartbeatTimeoutMs
    /\ exitTimers = <<now + exitDelayMs>>

\* C3: the inactivity trigger starts a shutdown only when the last activity
\* event (subprocess start or output, accepted connection, client message)
\* is older than the inactivity timeout.
C3_InactivityOnlyAfterTimeout ==
    [][(~shuttingDown /\ shuttingDown' /\ cause' = "no activity")
        => now - activityAt > inactivityTimeoutMs]_vars

\* C3 witness: the launcher is older than the inactivity timeout, the last
\* activity is not, and the monitor has just run without shutting down
C3_Witness ==
    /\ TickedNow
    /\ ~shuttingDown
    /\ now - StartTime > inactivityTimeoutMs
    /\ now - activityAt <= inactivityTimeoutMs
    /\ now - activityAt > 0

\* C4 as stated: a tick that finds the last activity event older than the
\* inactivity timeout starts the shutdown with the reason "no activity".
C4_Original ==
    [][(~shuttingDown /\ now - activityAt > inactivityTimeoutMs /\ MonitorTick)
        => (shuttingDown' /\ cause' = "no activity")]_vars

\* C4 as amended: such a tick starts the shutdown, with the reason "no
\* activity" when no heartbeat was ever received and "no heartbeat" otherwise
\* (the heartbeat test comes first and then holds too).
C4_InactivityFires ==
    [][(~shuttingDown /\ now - activityAt > inactivityTimeoutMs /\ MonitorTick)
        => (/\ shuttingDown'
            /\ cause' = IF hasReceivedHeartbeat THEN "no heartbeat" ELSE "no activity")]_vars

\* C4 witness: a shutdown for "no activity" has begun at this instant and no
\* heartbeat was ever received
C4_Witness ==
    /\ TickedNow
    /\ shuttingDown
    /\ cause = "no activity"
    /\ ~hasReceivedHeartbeat
    /\ now - activityAt > inactivityTimeoutMs
    /\ exitTimers = <<now + exitDelayMs>>


\* C5 as stated: the shutdown that takes effect sends the shutdown message
\* once to each connection in the connection set and closes each once, calls
\* kill once on the subprocess and schedules one exit; further invocations
\* add nothing to any of these.
C5_Original ==
    [][/\ (~shuttingDown /\ shuttingDown') =>
            /\ \A ws \in connectedClients :
                   shutdownSent'[ws] = 1 /\ closeCalls'[ws] = 1
            /\ lanPlayProc # 0 => killCalls'[lanPlayProc] = 1
            /\ Len(exitTimers') = 1
       /\ shuttingDown =>
            /\ \A ws \in connectedClients \cap connectedClients' :
                   shutdownSent'[ws] = shutdownSent[ws] /\ closeCalls'[ws] = closeCalls[ws]
            /\ killCalls' = killCalls
            /\ exitTimers' = exitTimers
            /\ \A ws \in Sockets : sent'[ws] # <<ShutdownMsg>>]_vars

\* C5 as amended: the shutdown that takes effect sends the shutdown message
\* once to each connection in the connection set that is open, and none to
\* one that is closing; it closes each connection in the set once, calls kill
\* once on the subprocess and schedules one exit; further invocations (a
\* signal, a monitor tick) add nothing to any of these.
C5_ShutdownIdempotent ==
    [][/\ (~shuttingDown /\ shuttingDown') =>
            /\ \A ws \in connectedClients :
                   /\ shutdownSent'[ws] = IF readyState[ws] = OPEN THEN 1 ELSE 0
                   /\ sent'[ws] = IF readyState[ws] = OPEN THEN <<ShutdownMsg>> ELSE <<>>
                   /\ closeCalls'[ws] = 1
            /\ lanPlayProc # 0 => killCalls'[lanPlayProc] = 1
            /\ Len(exitTimers') = 1
       /\ shuttingDown =>
            /\ \A ws \in connectedClients \cap connectedClients' :
                   shutdownSent'[ws] = shutdownSent[ws] /\ closeCalls'[ws] = closeCalls[ws]
            /\ killCalls' = killCalls
            /\ exitTimers' = exitTimers
            /\ \A ws \in Sockets : sent'[ws] # <<ShutdownMsg>>]_vars

\* C5 witness: the monitor began the shutdown for "no heartbeat", a signal has
\* invoked shutdown again, and one connection of the set got one message and
\* one close, the other, which was closing, no message and one close
C5_Witness ==
    /\ shuttingDown
    /\ cause = "no heartbeat"
    /\ signalled
    /\ lanPlayProc # 0
    /\ killCalls[lanPlayProc] = 1
    /\ Len(exitTimers) = 1
    /\ \E ws \in connectedClients : shutdownSent[ws] = 1 /\ closeCalls[ws] = 1
    /\ \E ws \in connectedClients : shutdownSent[ws] = 0 /\ closeCalls[ws] = 1

\* C6: the 'close' of a subprocess while shutdown has not begun schedules
\* exactly one restart, due 3 seconds later, and after shutdown has begun it
\* schedules none; a restart runs startLanPlay no sooner than it is due, and
\* takes one scheduled restart away.
C6_RestartOncePerExit ==
    [][/\ \A p \in Procs :
            (procState[p] \in {"alive", "errored"} /\ procState'[p] = "closed") =>
                restartTimers' = IF shuttingDown
                                 THEN restartTimers
                                 ELSE Append(restartTimers, now + restartDelayMs)
       /\ (phase = "running" /\ lanPlayProc' # lanPlayProc) =>
            /\ Len(restartTimers') = Len(restartTimers) - 1
            /\ \E i \in DOMAIN restartTimers : restartTimers[i] <= now]_vars

\* C6 witness: the first subprocess exited before shutdown and was replaced
\* by the second, which was killed by the shutdown and exited with no restart
\* scheduled
C6_Witness ==
    /\ procState[1] = "closed"
    /\ procState[2] = "closed"
    /\ procState[3] = "none"
    /\ shuttingDown
    /\ procKilled[2]
    /\ restartTimers = <<>>

\* C7 as stated: once shuttingDown is true no subprocess is spawned; a
\* restart timer that runs after shutdown has begun starts none.
C7_Original ==
    [][(shuttingDown /\ phase = "running") => Spawned' = Spawned]_vars

\* C8: at most one subprocess is alive at any instant.
C8_AtMostOneAlive ==
    Cardinality({p \in Procs : procState[p] = "alive"}) <= 1

\* C8 witness: the first subprocess has exited and its restart is alive, with
\* output of the first seen before
C8_Witness ==
    /\ procState[1] = "closed"
    /\ procState[2] = "alive"
    /\ lanPlayProc = 2
    /\ lanPlayRunning

\* C9: a connection whose request carries x-forwarded-for is closed; the
\* connection set, lastActivity, lastHeartbeat and hasReceivedHeartbeat stay
\* as they are, nothing is sent to it and it gets no message listener.
C9_ForwardedRejected ==
    [][\A ws \in Sockets :
          (readyState[ws] = 0 /\ readyState'[ws] # 0 /\ Connect(ws, TRUE)) =>
              /\ readyState'[ws] = CLOSING
              /\ closeCalls'[ws] = closeCalls[ws] + 1
              /\ connectedClients' = connectedClients
              /\ lastActivity' = lastActivity
              /\ lastHeartbeat' = lastHeartbeat
              /\ hasReceivedHeartbeat' = hasReceivedHeartbeat
              /\ sent' = Silent
              /\ msgHandlers' = msgHandlers]_vars

\* C9 witness: a socket was closed by the server outside a shutdown, is in
\* neither the connection set nor the listeners, and the clock has moved past
\* lastActivity
C9_Witness ==
    /\ ~shuttingDown
    /\ now > lastActivity
    /\ \E ws \in Sockets :
          /\ readyState[ws] = CLOSING
          /\ closeCalls[ws] = 1
          /\ ws \notin connectedClients
          /\ ws \notin msgHandlers

\* C10: a heartbeat message on an open accepted connection sets
\* hasReceivedHeartbeat, sets lastHeartbeat to the current time and sends a
\* heartbeat-ack on that connection and on no other.
C10_HeartbeatAcked ==
    [][\A ws \in Sockets, raw \in Heartbeats :
          (readyState[ws] = OPEN /\ ClientMessage(ws, raw)) =>
              /\ hasReceivedHeartbeat'
              /\ lastHeartbeat' = now
              /\ sent' = [Silent EXCEPT ![ws] = <<HeartbeatAck>>]]_vars

\* C10 witness: a heartbeat has just been acknowledged on one connection while
\* another open connection of the set got nothing, later than startup
C10_Witness ==
    /\ hasReceivedHeartbeat
    /\ lastHeartbeat = now
    /\ now > StartTime
    /\ \E ws, w \in connectedClients :
          /\ ws # w
          /\ readyState[ws] = OPEN
          /\ readyState[w] = OPEN
          /\ sent[ws] = <<HeartbeatAck>>
          /\ sent[w] = <<>>

\* C11: in the shutdown that takes effect (begun by the monitor or by a
\* signal) every open connection of the connection set is sent the shutdown
\* message {type:"shutdown", reason:"timeout"} before it is closed, and
\* before the subprocess is killed and the exit is scheduled; the process has
\* not exited then.
C11_NotifyBeforeCloseAndKill ==
    [][(~shuttingDown /\ shuttingDown') =>
          /\ phase' # "exited"
          /\ \A ws \in connectedClients :
                readyState[ws] = OPEN =>
                    /\ sent'[ws] = <<ShutdownMsg>>
                    /\ \E i \in DOMAIN ops' :
                          /\ ops'[i] = <<"send", ws>>
                          /\ \E j \in DOMAIN ops' : j > i /\ ops'[j] = <<"close", ws>>
                          /\ \A k \in DOMAIN ops' :
                                (ops'[k] = <<"close", ws>>
                                    \/ ops'[k][1] \in {"kill", "setTimeout"}) => k > i]_vars

\* C11 witness: a shutdown has just notified and closed two connections and
\* killed the subprocess
C11_Witness ==
    /\ shuttingDown
    /\ Len(ops) = 6
    /\ \E ws, w \in connectedClients :
          /\ ws # w
          /\ ops[1] = <<"send", ws>>
          /\ ops[2] = <<"close", ws>>
          /\ ops[3] = <<"send", w>>
          /\ ops[4] = <<"close", w>>
    /\ ops[5] = <<"kill", lanPlayProc>>
    /\ ops[6] = <<"setTimeout", exitDelayMs>>


\* C12: when the subprocess keeps crashing and being restarted and no browser
\* connection or message ever arrives, the launcher eventually shuts down
\* and terminates.
C12_Original == <>(phase = "exited")

C14_Original ==
    [][\A p \in Procs :
          /\ (procState[p] = "none" /\ procState'[p] = "errored") => ~lanPlayRunning'
          /\ (procState[p] = "errored" /\ procState'[p] # "errored") =>
                 restartTimers' = restartTimers]_vars

\* C15: shutdown begins only in a tick of the monitor at which a heartbeat
\* was received and is older than the heartbeat timeout or the last activity
\* is older than the inactivity timeout, or in a signal handler.  A client
\* disconnect removes the connection from the set and does not begin
\* shutdown, even when it leaves the set empty; neither do exits of the
\* subprocess or client messages.
C15_ShutdownOnlyFromTickOrSignal ==
    [][/\ (~shuttingDown /\ shuttingDown') =>
              /\ \/ Signal
                 \/ /\ MonitorTick
                    /\ \/ hasReceivedHeartbeat /\ now - lastHeartbeat > heartbeatTimeoutMs
                       \/ now - lastActivity > inactivityTimeoutMs
              /\ ~(\E ws \in Sockets : SocketClosed(ws))
              /\ ~(\E p \in Procs : ProcClose(p))
              /\ ~(\E ws \in Sockets, raw \in Payloads : ClientMessage(ws, raw))
       /\ \A ws \in connectedClients :
              (readyState[ws] # 0 /\ readyState'[ws] = 0) =>
                  /\ connectedClients' = connectedClients \ {ws}
                  /\ shuttingDown' = shuttingDown
                  /\ exitTimers' = exitTimers]_vars

\* the launcher runs on with an empty set, after a client that sent a
\* heartbeat has disconnected and the subprocess has exited
C15_Witness ==
    /\ phase = "running"
    /\ ~shuttingDown
    /\ hasReceivedHeartbeat
    /\ connectedClients = {}
    /\ \A ws \in Sockets : readyState[ws] = 0
    /\ \E p \in Procs : procState[p] = "closed"

\* C16: shuttingDown, once true, is never false again, so it turns true at
\* most once; a shutdown request made while it is true (a signal, a tick of
\* the monitor) changes nothing of the launcher's state, makes no call and
\* sends nothing.
C16_ShuttingDownMonotonic ==
    [][shuttingDown =>
          /\ shuttingDown'
          /\ (Signal \/ MonitorTick) =>
                 /\ sent' = Silent
                 /\ ops' = <<>>
                 /\ UNCHANGED <<phase, exitCode, startVars, procVars, clockVars, wsVars, killVars,
                                shutdownSent, restartTimers, exitTimers, cause>>]_vars

\* a signal has asked for shutdown after the monitor began it for inactivity
C16_Witness ==
    /\ phase = "running"
    /\ shuttingDown
    /\ cause = "no activity"
    /\ signalled
    /\ Len(exitTimers) = 1

\* C17: while the clock does not go back, lastActivity never decreases, and
\* hasReceivedHeartbeat, once true, is never false again.
C17_StampsMonotonic ==
    [][now' >= now =>
          /\ lastActivity' >= lastActivity
          /\ hasReceivedHeartbeat => hasReceivedHeartbeat']_vars

\* a heartbeat was received, the clock has moved on, and a later event has
\* stamped lastActivity
C17_Witness ==
    /\ hasReceivedHeartbeat
    /\ lastHeartbeat >= StartTime
    /\ lastActivity > lastHeartbeat
    /\ lastActivity = now

\* C18: when the port cannot be bound the launcher exits at once with failure
\* status, and nothing is processed after that: no tick of the monitor, no
\* client connection, no other event.
C18_BindFailureFatal ==
    [][/\ (dl # "done" /\ dl' = "done" /\ ~listening') =>
              phase' = "exited" /\ exitCode' = 1
       /\ ~(dl = "done" /\ ~listening)]_vars

\* the launcher has ended with failure status at the bind error; the
\* subprocess and the monitor were started in the same turn
C18_Witness ==
    /\ phase = "exited"
    /\ exitCode = 1
    /\ dl = "done"
    /\ ~listening
    /\ lanPlayProc # 0
    /\ monitorDue # 0

\* C19: whenever the acquisition of the binary fails, the partial file has
\* been removed by the time the launcher exits, so that no file is left at
\* the binary path.
C19_Original == dl = "failed" => file = "absent"

\* C20: the download follows at most 5 redirects.  A response with a status
\* from 300 to 399 and a Location header is followed when fewer than 5
\* redirects were followed before it and is an error otherwise; status 200
\* succeeds, after 0 to 5 redirects; any other response is an error.  Every
\* response ends the download or adds one to the number of redirects
\* followed, so the download ends once its requests are answered.
C20_RedirectsBounded ==
    /\ [][dl = "get" =>
              /\ depth' <= maxRedirectDepth
              /\ depth' # depth => depth' = depth + 1 /\ dl' = "get"
              /\ \A res \in Responses :
                     Response(res) =>
                        IF res.statusCode >= 300 /\ res.statusCode < 400 /\ res.location
                        THEN IF depth < maxRedirectDepth
                             THEN dl' = "get" /\ depth' = depth + 1
                             ELSE dl' = "failed" /\ phase' = "exited" /\ exitCode' = 1
                        ELSE IF res.statusCode = 200
                        THEN dl' = "piping" /\ phase' = "await"
                        ELSE dl' = "failed" /\ phase' = "exited" /\ exitCode' = 1]_vars
    /\ <>(dl # "get" \/ phase = "exited")

\* the fifth redirect was followed and the answer to the sixth request was 200
C20_Witness == dl = "piping" /\ depth = maxRedirectDepth /\ phase = "await"

\* C21: a connection whose request carries no x-forwarded-for header is added
\* to the connection set, lastActivity is set to the present time, and the
\* first thing sent to it is a status message whose running field is
\* lanPlayRunning as it is at that moment; nothing is sent to the others.
C21_AcceptRegistersAndReports ==
    [][\A ws \in Sockets :
          (readyState[ws] = 0 /\ readyState'[ws] # 0 /\ Connect(ws, FALSE)) =>
              /\ readyState'[ws] = OPEN
              /\ connectedClients' = connectedClients \cup {ws}
              /\ ws \in msgHandlers'
              /\ lastActivity' = now
              /\ sent'[ws] = <<StatusMsg([running |-> lanPlayRunning])>>
              /\ \A w \in Sockets \ {ws} : sent'[w] = <<>>]_vars

\* a client was accepted after the subprocess exited and after the clock
\* moved: it is told running = false
C21_Witness ==
    /\ phase = "running"
    /\ now > StartTime
    /\ lastActivity = now
    /\ ~lanPlayRunning
    /\ ~hasReceivedHeartbeat
    /\ \E ws \in Sockets :
          /\ connectedClients = {ws}
          /\ readyState[ws] = OPEN
          /\ sent[ws] = <<StatusMsg([running |-> FALSE])>>

C23_Original ==
    [][(phase = "running" /\ (ProcStdout \/ ProcStderr)) =>
          /\ lastActivity' = now
          /\ \A ws \in connectedClients :
                 readyState[ws] = OPEN =>
                     sent'[ws] = <<StatusMsg([running |-> lanPlayRunning])>>]_vars

\* the payloads that cannot be parsed or whose type is not recognised
Unhandled == {raw \in Payloads : MsgType(raw) \notin {"heartbeat", "status"}}

\* C24: a client message that cannot be parsed, or that parses to a value
\* without a recognised type, gets no reply; it sets lastActivity to the
\* present time and changes nothing else: not lastHeartbeat, not
\* hasReceivedHeartbeat, not the connection set; the socket keeps its
\* message listener and its state, so later messages are handled.
C24_UnhandledMessageDropped ==
    [][\A ws \in msgHandlers, raw \in Unhandled :
          (phase = "running" /\ ClientMessage(ws, raw)) =>
              /\ sent' = Silent
              /\ lastActivity' = now
              /\ ws \in msgHandlers'
              /\ UNCHANGED <<phase, exitCode, lastHeartbeat, hasReceivedHeartbeat, procVars,
                             shuttingDown, wsVars, killVars, shutdownSent, timerVars, cause>>]_vars

\* no subprocess is alive and the one open client has just sent something
\* that was dropped: lastActivity is the present time and nothing was sent
C24_Witness ==
    /\ phase = "running"
    /\ ~shuttingDown
    /\ now > StartTime
    /\ lastActivity = now
    /\ sent = Silent
    /\ \A p \in Procs : procState[p] # "alive"
    /\ \E ws \in Sockets :
          /\ connectedClients = {ws}
          /\ msgHandlers = {ws}
          /\ readyState[ws] = OPEN
          /\ \A w \in Sockets \ {ws} : readyState[w] = 0

\* C25: a tick of the monitor tests the heartbeat condition before the
\* inactivity condition and begins at most one shutdown: for "no heartbeat"
\* when the heartbeat condition holds, also when both hold, for "no activity"
\* when only the inactivity condition holds, none otherwise.  A tick that
\* runs while shuttingDown is true tests nothing and changes no state.
C25_TickShortCircuits ==
    [][(monitorDue # 0 /\ monitorDue' # monitorDue /\ MonitorTick) =>
          IF shuttingDown
          THEN /\ sent' = Silent
               /\ ops' = <<>>
               /\ UNCHANGED <<phase, exitCode, procVars, clockVars, wsVars, killVars,
                              shuttingDown, shutdownSent, restartTimers, exitTimers, cause>>
          ELSE IF hasReceivedHeartbeat /\ now - lastHeartbeat > heartbeatTimeoutMs
          THEN /\ shuttingDown'
               /\ cause' = "no heartbeat"
               /\ exitTimers' = Append(exitTimers, now + exitDelayMs)
          ELSE IF now - lastActivity > inactivityTimeoutMs
          THEN /\ shuttingDown'
               /\ cause' = "no activity"
               /\ exitTimers' = Append(exitTimers, now + exitDelayMs)
          ELSE /\ sent' = Silent
               /\ ops' = <<>>
               /\ UNCHANGED <<phase, exitCode, procVars, clockVars, wsVars, killVars,
                              shuttingDown, shutdownSent, restartTimers, exitTimers, cause>>]_vars

\* both conditions held at the tick that has just run, and the shutdown was
\* begun once, for the heartbeat
C25_Witness ==
    /\ TickedNow
    /\ shuttingDown
    /\ ~signalled
    /\ cause = "no heartbeat"
    /\ hasReceivedHeartbeat
    /\ now - lastHeartbeat > heartbeatTimeoutMs
    /\ now - activityAt > inactivityTimeoutMs
    /\ exitTimers = <<now + exitDelayMs>>

\* C26: a status message that says running = true is sent only while the
\* subprocess is alive, and lanPlayRunning is not true after a failed spawn
\* or after the subprocess has exited.
C26_Original ==
    LET live == lanPlayProc # 0 /\ procState[lanPlayProc] = "alive" IN
    /\ lanPlayRunning => live
    /\ \A ws \in Sockets :
           \A i \in DOMAIN sent[ws] :
               sent[ws][i] = StatusMsg([running |-> TRUE]) => live

\* C27: when the launcher has exited, on whatever path, no subprocess is
\* alive that was not sent a termination signal.
C27_Original ==
    phase = "exited" => \A p \in Procs : procState[p] = "alive" => procKilled[p]

\* C28 as stated: in the room service every room holds at most 2 players, no
\* room of the table has zero players, and a join to a room that holds 2
\* players is answered with room-full and adds no player.
C28_Original ==
    /\ [](\A code \in DOMAIN rooms :
             Len(rooms[code].players) \in 1..MAX_PLAYERS)
    /\ [][\A s \in ioSockets, data \in JoinData :
             LET code == normalizeCode(data) IN
             (/\ code \in DOMAIN rooms
              /\ Len(rooms[code].players) = MAX_PLAYERS
              /\ JoinRoom(s, data)) =>
                 /\ emitted'[Len(emitted')] = Emit(s, "room-full", 0, "")
                 /\ code \in DOMAIN rooms'
                 /\ rooms'[code].players = rooms[code].players]_vars

\* C28: in the room service, after any sequence of join-room, leave-room,
\* disconnect and sweep events, every room holds at most 2 players and no
\* room of the table has zero players.  A join to a room that holds 2
\* players, made by a socket that is not one of them, is answered with
\* room-full and adds no player; made by one of the two, it takes that
\* player out and in again: the answer is room-joined and the room holds 2
\* players as before.
C28_RoomsCapped ==
    /\ [](\A code \in DOMAIN rooms :
             Len(rooms[code].players) \in 1..MAX_PLAYERS)
    /\ [][\A s \in ioSockets, data \in JoinData :
             LET code == normalizeCode(data) IN
             (/\ code \in DOMAIN rooms
              /\ Len(rooms[code].players) = MAX_PLAYERS
              /\ JoinRoom(s, data)) =>
                 /\ code \in DOMAIN rooms'
                 /\ Len(rooms'[code].players) = MAX_PLAYERS
                 /\ IF s \in Ids(rooms[code].players)
                    THEN /\ \E i \in DOMAIN emitted' :
                               /\ emitted'[i].to = s
                               /\ emitted'[i].ev = "room-joined"
                               /\ emitted'[i].playerCount = MAX_PLAYERS
                         /\ Ids(rooms'[code].players) = Ids(rooms[code].players)
                    ELSE /\ emitted'[Len(emitted')] = Emit(s, "room-full", 0, "")
                         /\ rooms'[code].players = rooms[code].players]_vars

\* a third socket has just been refused by a room of two
C28_Witness ==
    \E s \in ioSockets, code \in DOMAIN rooms :
        /\ emitted # <<>>
        /\ emitted[Len(emitted)] = Emit(s, "room-full", 0, "")
        /\ Len(rooms[code].players) = MAX_PLAYERS
        /\ s \notin Ids(rooms[code].players)
        /\ currentRoom[s] = NoCode

\* C29: in the room service the room that a socket tracks as its current
\* room is a room of the table whose players include that socket; a
\* leave-room or a disconnect of a socket whose current room does not hold
\* it changes no room and emits nothing.
C29_Original ==
    /\ [](\A s \in RoomSockets :
             currentRoom[s] # NoCode =>
                 /\ currentRoom[s] \in DOMAIN rooms
                 /\ s \in Ids(rooms[currentRoom[s]].players))
    /\ [][\A s \in ioSockets :
             (/\ currentRoom[s] \in DOMAIN rooms
              /\ s \notin Ids(rooms[currentRoom[s]].players)
              /\ (LeaveRoom(s) \/ RoomDisconnect(s))) =>
                 /\ rooms' = rooms
                 /\ emitted' = <<>>]_vars

====
